---- MODULE Spec2Model ----
(***************************************************************************)
(* A model of sqlmorpher's join validator (joins.py), query builder and    *)
(* migration loop (migration.py) over a small reflected catalog, and of    *)
(* its connection-string builders (connection_string.py).                  *)
(* Identifiers and ON clauses are sequences of one-character strings, so   *)
(* that the regular expression, str.upper, str.startswith and str.split    *)
(* are computed character by character.                                    *)
(***************************************************************************)
EXTENDS Integers, Sequences, FiniteSets, TLC

VARIABLES
    registry,      \* transform_registry argument of migrate (None or a dict)
    srcRows,       \* content of the source database (one value per row)
    plan,          \* the entries of `mapping` iterated so far
    k,             \* index of the entry being processed (0 before the first)
    pc,            \* position of migrate
    insert_fn,     \* local insert_fn of migrate (NoFn when None)
    added_tables,  \* local added_tables of validate_joins
    table_map,     \* local table_map of validate_joins (set of loaded names)
    from_clause,   \* local from_clause of validate_joins
    vj,            \* index of the join validate_joins is at
    join_query,    \* local join_query of migrate
    rows,          \* local rows of migrate / _process_rows
    ri,            \* index of the row _process_rows is at
    extracted,     \* history: the rows each entry's extraction returned
    queries,       \* history: statements executed on old_db
    calls,         \* history: calls of transform functions
    inserts,       \* history: rows committed to new_db, in commit order
    error,         \* the exception that left migrate (NoError when none)
    result,        \* the value migrate returned ("" while running)
    conn           \* a call of create_connection_string and its outcome

vars == <<registry, srcRows, plan, k, pc, insert_fn, added_tables, table_map,
          from_clause, vj, join_query, rows, ri, extracted, queries, calls,
          inserts, error, result, conn>>

----------------------------------------------------------------------------
\* Bounds of the model.

MaxEntries == 2
MaxRows == 2
Values == {1, 2}

----------------------------------------------------------------------------
\* Characters and strings.

Lower == <<"a","b","c","d","e","f","g","h","i","j","k","l","m",
           "n","o","p","q","r","s","t","u","v","w","x","y","z">>
Upper == <<"A","B","C","D","E","F","G","H","I","J","K","L","M",
           "N","O","P","Q","R","S","T","U","V","W","X","Y","Z">>
Digits == {"0","1","2","3","4","5","6","7","8","9"}

Range(f) == {f[x] : x \in DOMAIN f}

\* \w of Python's re on str: letters, digits and the underscore.
WordChars == Range(Lower) \cup Range(Upper) \cup Digits \cup {"_"}
IsWord(c) == c \in WordChars

\* \s of Python's re.
IsSpace(c) == c \in {" ", "\t", "\n", "\r"}

\* str.upper on one character.
UpperChar(c) ==
    IF c \in Range(Lower)
    THEN Upper[CHOOSE i \in DOMAIN Lower : Lower[i] = c]
    ELSE c

\* str.upper
StrUpper(s) == [i \in DOMAIN s |-> UpperChar(s[i])]

\* str.startswith
StartsWith(s, p) == Len(s) >= Len(p) /\ SubSeq(s, 1, Len(p)) = p

\* First index at or after i whose character is not a word character
\* (Len(s)+1 when the run reaches the end): the greedy \w+ of the pattern.
RECURSIVE WordEnd(_, _)
WordEnd(s, i) ==
    IF i <= Len(s) /\ IsWord(s[i]) THEN WordEnd(s, i + 1) ELSE i

\* The same for \s*.
RECURSIVE SpaceEnd(_, _)
SpaceEnd(s, i) ==
    IF i <= Len(s) /\ IsSpace(s[i]) THEN SpaceEnd(s, i + 1) ELSE i

\* Index of the first "." of s at or after i, Len(s)+1 when there is none.
RECURSIVE DotAt(_, _)
DotAt(s, i) ==
    IF i <= Len(s) /\ s[i] # "." THEN DotAt(s, i + 1) ELSE i

\* str.split(".")
RECURSIVE SplitDot(_)
SplitDot(s) ==
    LET d == DotAt(s, 1)
    IN  IF d > Len(s) THEN <<s>>
        ELSE <<SubSeq(s, 1, d - 1)>> \o SplitDot(SubSeq(s, d + 1, Len(s)))

\* dict.get(key, default); a missing key of get(key) is None, modelled <<>>.
Get(d, key, default) == IF key \in DOMAIN d THEN d[key] ELSE default

None == <<>>

----------------------------------------------------------------------------
\* The reflected source catalog (the schema of the tests' fixtures, with
\* one-letter table names): table name -> ordered columns with native types.

U == <<"U">>          \* users
P == <<"P">>          \* profiles
C == <<"C">>          \* countries
N == <<"N">>          \* a table that does not exist
T == <<"T">>          \* the target table (comptes)

id == <<"i", "d">>

Col(n, t) == [name |-> n, type |-> t]

Catalog ==
    (U :> <<Col(id, "INTEGER"), Col(<<"n">>, "TEXT")>>) @@
    (P :> <<Col(id, "INTEGER"), Col(<<"u">>, "BIGINT"), Col(<<"h">>, "TEXT"),
            Col(<<"c">>, "INTEGER"), Col(<<"d">>, "DATE")>>) @@
    (C :> <<Col(id, "INTEGER"), Col(<<"n">>, "VARCHAR"), Col(<<"f">>, "FLOAT")>>)

\* inspector.get_table_names()
TableNames == DOMAIN Catalog

\* Native types that are instances of sqlalchemy's Integer, String, Date
\* and Boolean.
IntegerTypes == {"INTEGER", "BIGINT", "SMALLINT"}
StringTypes == {"TEXT", "VARCHAR"}
DateTypes == {"DATE"}
BooleanTypes == {"BOOLEAN"}

\* `col in table.c`
HasColumn(table, column) == \E i \in DOMAIN table : table[i].name = column

\* table.c[column]
ColumnOf(table, column) ==
    table[CHOOSE i \in DOMAIN table : table[i].name = column]

\* _get_column_type: the semantic tag, or the raw type name.
GetColumnType(table, column) ==
    IF ~HasColumn(table, column) THEN "None"
    ELSE LET ty == ColumnOf(table, column).type
         IN  IF ty \in IntegerTypes THEN "int"
             ELSE IF ty \in StringTypes THEN "str"
             ELSE IF ty \in DateTypes THEN "date"
             ELSE IF ty \in BooleanTypes THEN "bool"
             ELSE ty

----------------------------------------------------------------------------
\* Exceptions. names holds identifiers and clauses (character sequences),
\* strs holds plain strings, in the order the message interpolates them.

Exc(e, kd, ns, ss) == [exc |-> e, kind |-> kd, names |-> ns, strs |-> ss]

NoError == Exc("", "", <<>>, <<>>)

ValueError(kd, ns, ss) == Exc("ValueError", kd, ns, ss)

\* _parse_on_clause: re.match of (\w+)\.(\w+)\s*=\s*(\w+)\.(\w+), which
\* anchors at the start of the string only. Each \w+ is followed in the
\* pattern by a character that is not a word character, so the greedy
\* match is the only one; None when there is no match.
ParseOnClause(on) ==
    LET a1 == WordEnd(on, 1)
        b0 == a1 + 1
        b1 == WordEnd(on, b0)
        eq == SpaceEnd(on, b1)
        c0 == SpaceEnd(on, eq + 1)
        c1 == WordEnd(on, c0)
        d0 == c1 + 1
        d1 == WordEnd(on, d0)
    IN  IF a1 = 1 \/ a1 > Len(on) \/ on[a1] # "." THEN None
        ELSE IF b1 = b0 THEN None
        ELSE IF eq > Len(on) \/ on[eq] # "=" THEN None
        ELSE IF c1 = c0 \/ c1 > Len(on) \/ on[c1] # "." THEN None
        ELSE IF d1 = d0 THEN None
        ELSE <<SubSeq(on, 1, a1 - 1), SubSeq(on, b0, b1 - 1),
               SubSeq(on, c0, c1 - 1), SubSeq(on, d0, d1 - 1)>>

\* _parse_on_or_raise: the exception, NoError when the clause parses.
ParseOnOrRaise(on) ==
    IF ParseOnClause(on) = None
    THEN ValueError("InvalidOn", <<on>>, <<>>)
    ELSE NoError

\* _ensure_table_and_load: the exception, NoError when the table exists.
EnsureTableAndLoad(name, tables) ==
    IF name \notin tables
    THEN ValueError("UnknownTable", <<name>>, <<>>)
    ELSE NoError

\* _load_table
LoadTable(name) == Catalog[name]

\* _ensure_columns_exist for the one column it is called with.
EnsureColumnsExist(tname, table, column) ==
    IF ~HasColumn(table, column)
    THEN ValueError("UnknownColumn", <<column, tname>>, <<>>)
    ELSE NoError

\* A variant that checks the left table of the predicate only.
EnsureReferencedLeftOnly(added, referenced, current_table) ==
    IF referenced[1] \notin added /\ referenced[1] # current_table
    THEN ValueError("ForwardReference", <<referenced[1]>>, <<>>)
    ELSE NoError

\* _ensure_referenced_tables: the first of the two referenced tables that
\* is neither added nor the current table raises.
EnsureReferencedTables(added, referenced, current_table) ==
    IF referenced[1] \notin added /\ referenced[1] # current_table
    THEN ValueError("ForwardReference", <<referenced[1]>>, <<>>)
    ELSE IF referenced[2] \notin added /\ referenced[2] # current_table
    THEN ValueError("ForwardReference", <<referenced[2]>>, <<>>)
    ELSE NoError

\* A variant that compares the native type names instead of the tags.
TypeCheckNative(lt, lc, rt, rc) ==
    LET left_type == ColumnOf(LoadTable(lt), lc).type
        right_type == ColumnOf(LoadTable(rt), rc).type
    IN  IF left_type # right_type
        THEN ValueError("TypeMismatch", <<lt, lc, rt, rc>>,
                        <<left_type, right_type>>)
        ELSE NoError

\* The type comparison of validate_joins.
TypeCheck(lt, lc, rt, rc) ==
    LET left_type == GetColumnType(LoadTable(lt), lc)
        right_type == GetColumnType(LoadTable(rt), rc)
    IN  IF left_type # right_type
        THEN ValueError("TypeMismatch", <<lt, lc, rt, rc>>,
                        <<left_type, right_type>>)
        ELSE NoError

----------------------------------------------------------------------------
\* validate_joins, one join at a time.

INNER == <<"I", "N", "N", "E", "R">>
LEFT == <<"L", "E", "F", "T">>

\* A variant that compares the type without upper-casing it.
IsOuterCaseSensitive(join_info) ==
    StartsWith(Get(join_info, "type", INNER), LEFT)

\* join_info.get("type", "INNER").upper() and join_type.startswith("LEFT")
IsOuter(join_info) == StartsWith(StrUpper(Get(join_info, "type", INNER)), LEFT)

\* The exception the body of the loop over join_tables raises for
\* join_info, in the order of its statements; NoError when it raises none.
JoinError(join_info, added) ==
    LET table_name == Get(join_info, "table", None)
        on_clause == Get(join_info, "on_clause", None)
        parsed == ParseOnClause(on_clause)
    IN  IF table_name = None \/ on_clause = None
        THEN ValueError("MalformedJoin", <<>>, <<>>)
        ELSE IF EnsureTableAndLoad(table_name, TableNames) # NoError
        THEN EnsureTableAndLoad(table_name, TableNames)
        ELSE IF ParseOnOrRaise(on_clause) # NoError
        THEN ParseOnOrRaise(on_clause)
        ELSE IF EnsureReferencedTables(added, <<parsed[1], parsed[3]>>,
                                       table_name) # NoError
        THEN EnsureReferencedTables(added, <<parsed[1], parsed[3]>>,
                                    table_name)
        ELSE IF EnsureTableAndLoad(parsed[1], TableNames) # NoError
        THEN EnsureTableAndLoad(parsed[1], TableNames)
        ELSE IF EnsureTableAndLoad(parsed[3], TableNames) # NoError
        THEN EnsureTableAndLoad(parsed[3], TableNames)
        ELSE IF EnsureColumnsExist(parsed[1], LoadTable(parsed[1]),
                                   parsed[2]) # NoError
        THEN EnsureColumnsExist(parsed[1], LoadTable(parsed[1]), parsed[2])
        ELSE IF EnsureColumnsExist(parsed[3], LoadTable(parsed[3]),
                                   parsed[4]) # NoError
        THEN EnsureColumnsExist(parsed[3], LoadTable(parsed[3]), parsed[4])
        ELSE TypeCheck(parsed[1], parsed[2], parsed[3], parsed[4])

\* table_map[name] = table
MapSet(m, name, table) ==
    [n \in DOMAIN m \cup {name} |-> IF n = name THEN table ELSE m[n]]

\* A variant that loads the left table of the predicate only.
JoinTableMapLeftOnly(join_info, tmap) ==
    LET parsed == ParseOnClause(join_info["on_clause"])
    IN  MapSet(tmap, parsed[1], LoadTable(parsed[1]))

\* What a join that raised nothing assigns to table_map: the two tables of
\* its predicate, and only those.
JoinTableMap(join_info, tmap) ==
    LET parsed == ParseOnClause(join_info["on_clause"])
    IN  MapSet(MapSet(tmap, parsed[1], LoadTable(parsed[1])),
               parsed[3], LoadTable(parsed[3]))

\* from_clause.join(right_table, left_col == right_col, isouter=is_outer):
\* the table joined is the one on the right of the predicate.
JoinFromClause(join_info, fc) ==
    LET parsed == ParseOnClause(join_info["on_clause"])
    IN  [fc EXCEPT !.joins = Append(@,
            [right |-> parsed[3],
             left_col |-> <<parsed[1], parsed[2]>>,
             right_col |-> <<parsed[3], parsed[4]>>,
             isouter |-> IsOuter(join_info)])]

\* added_tables.add(table_name)
JoinAdded(join_info, added) == added \cup {join_info["table"]}

\* The tables of a join tree, in FROM order.
TreeTables(fc) == <<fc.root>> \o [i \in DOMAIN fc.joins |-> fc.joins[i].right]

\* What the engine does with a statement over the join tree fc: a tree
\* that names a table twice (no aliases are generated) or whose ON clause
\* names a table outside the tree is rejected by every engine; any other
\* statement may succeed or fail.
WellFormed(fc) ==
    LET ts == TreeTables(fc)
    IN  /\ \A i, j \in DOMAIN ts : ts[i] = ts[j] => i = j
        /\ \A i \in DOMAIN fc.joins :
              /\ fc.joins[i].left_col[1] \in Range(SubSeq(ts, 1, i + 1))
              /\ fc.joins[i].right_col[1] \in Range(SubSeq(ts, 1, i + 1))

ExecuteOutcomes(fc) ==
    IF WellFormed(fc) THEN {"ok", "SQLAlchemyError"} ELSE {"SQLAlchemyError"}

\* generate_join_query's list of labelled columns: the exception of the
\* first key that does not resolve, NoError when all do.
RECURSIVE ColumnsError(_, _)
ColumnsError(select_columns, tmap) ==
    IF select_columns = <<>> THEN NoError
    ELSE LET parts == SplitDot(Head(select_columns).src)
         IN  IF parts[1] \notin DOMAIN tmap
             THEN Exc("KeyError", "UnknownColumn", <<parts[1]>>, <<>>)
             ELSE IF Len(parts) < 2
             THEN Exc("IndexError", "UnknownColumn", <<parts[1]>>, <<>>)
             ELSE IF ~HasColumn(tmap[parts[1]], parts[2])
             THEN Exc("KeyError", "UnknownColumn", <<parts[2]>>, <<>>)
             ELSE ColumnsError(Tail(select_columns), tmap)

\* A variant that lists the columns of the root table first, then those
\* of the joined tables.
CompileQueryTreeOrder(select_columns, fc) ==
    LET entry(i) == LET parts == SplitDot(select_columns[i].src)
                    IN  [table |-> parts[1], column |-> parts[2],
                         alias |-> select_columns[i].alias]
        all == [i \in DOMAIN select_columns |-> entry(i)]
        ofRoot(x) == x.table = fc.root
        others(x) == x.table # fc.root
    IN  [select |-> SelectSeq(all, ofRoot) \o SelectSeq(all, others),
         from |-> fc]

\* The statement generate_join_query compiles: the labelled columns in
\* the iteration order of select_columns, over from_clause.
CompileQuery(select_columns, fc) ==
    [select |-> [i \in DOMAIN select_columns |->
                    LET parts == SplitDot(select_columns[i].src)
                    IN  [table |-> parts[1], column |-> parts[2],
                         alias |-> select_columns[i].alias]],
     from |-> fc]

----------------------------------------------------------------------------
\* Transform functions and the registry.

Fn(n, s) == [name |-> n, shape |-> s]

\* insert_fn is None
NoFn == Fn("", "")

\* The registry of a caller: two row mappers of one parameter, as the
\* tests register them, and two writers of two parameters (TransformFn).
FullRegistry ==
    <<Fn("upper", "mapper"), Fn("filter", "mapper"),
      Fn("writer", "writer"), Fn("sink", "writer")>>

Registries == {[given |-> FALSE, items |-> <<>>],
               [given |-> TRUE, items |-> FullRegistry]}

\* `if transform_registry is None: transform_registry = {}`
TransformRegistry(reg) == IF reg.given THEN reg.items ELSE <<>>

\* transform_registry.get(insert_fn_name)
RegistryGet(reg, name) ==
    IF \E i \in DOMAIN reg : reg[i].name = name
    THEN reg[CHOOSE i \in DOMAIN reg : reg[i].name = name]
    ELSE NoFn

\* list(transform_registry.keys())
RegistryKeys(reg) == [i \in DOMAIN reg |-> reg[i].name]

\* A variant that treats a name missing from the registry as no transform.
LookupErrorNever(reg, insert_fn_name) == NoError

\* _lookup_insert_fn: the exception it raises, NoError when none.
LookupError(reg, insert_fn_name) ==
    IF insert_fn_name = "" THEN NoError
    ELSE IF RegistryGet(reg, insert_fn_name) = NoFn
    THEN ValueError("UnknownTransform", <<>>,
                    <<insert_fn_name>> \o RegistryKeys(reg))
    ELSE NoError

\* _lookup_insert_fn: the value it returns.
LookupInsertFn(reg, insert_fn_name) ==
    IF insert_fn_name = "" THEN NoFn ELSE RegistryGet(reg, insert_fn_name)

\* What the tests' row mappers return for a row: "upper" rewrites every
\* value, "filter" drops the rows whose first source value is odd.
Absent == [absent |-> TRUE]

MapperResult(name, row) ==
    IF name = "upper" THEN [a \in DOMAIN row |-> row[a] + 100]
    ELSE IF \E a \in DOMAIN row : row[a] % 2 = 1 THEN Absent
    ELSE row

\* Whether a writer persists the row it is given (through
\* new_db.insert_row, into the table it chooses).
WriterPersists(name) == name = "writer"

\* row_to_dict: the dict of a RowMapping, a later pair of a repeated key
\* replacing the earlier one.
RowToDict(row) ==
    [a \in {row[i][1] : i \in DOMAIN row} |->
        row[CHOOSE i \in DOMAIN row :
               /\ row[i][1] = a
               /\ \A j \in DOMAIN row : row[j][1] = a => j <= i][2]]

\* The rows the engine returns for a compiled statement: one per source
\* row, one (alias, value) pair per selected column, in column order.
ResultRows(query, data) ==
    [r \in DOMAIN data |->
        [c \in DOMAIN query.select |->
            <<query.select[c].alias, 10 * c + data[r]>>]]

----------------------------------------------------------------------------
\* The inputs: join specifications, column selections, plan entries.

Ref(t, c) == t \o <<".">> \o c
Eq(l, r) == l \o <<" ", "=", " ">> \o r
EqTight(l, r) == l \o <<"=">> \o r

Join2(t, on) == ("table" :> t) @@ ("on_clause" :> on)
Join3(t, on, ty) == Join2(t, on) @@ ("type" :> ty)

left == <<"l", "e", "f", "t">>

JUP == Join3(P, Eq(Ref(U, id), Ref(P, <<"u">>)), left)
JPC == Join2(C, EqTight(Ref(P, <<"c">>), Ref(C, id)))

ValidJoinLists == { <<>>, <<JUP>>, <<JUP, JPC>> }

InvalidJoinLists ==
    { <<("table" :> P) @@ ("on" :> Eq(Ref(U, id), Ref(P, <<"u">>)))
        @@ ("type" :> LEFT)>>,                             \* key "on"
      <<Join3(N, Eq(Ref(U, id), Ref(N, id)), left)>>,      \* unknown table
      <<Join3(P, Ref(U, id), left)>>,                      \* no equality
      <<Join3(P, Eq(Ref(C, id), Ref(P, <<"u">>)), left)>>, \* C not joined
      <<Join3(P, Eq(Ref(U, id), Ref(C, <<"n">>)), INNER)>>,
      <<Join3(P, Eq(Ref(C, <<"q">>), Ref(P, <<"h">>)), LEFT)>>,
      <<Join3(P, Eq(Ref(N, id), Ref(P, <<"u">>)), left)>>,
      <<Join3(P, Eq(Ref(U, id), Ref(P, <<"q">>)), left)>>, \* unknown column
      <<Join3(P, Eq(Ref(U, id), Ref(P, <<"d">>)), left)>>, \* int = date
      <<Join3(P, Eq(Ref(U, id), Ref(P, <<"h">>)), INNER)>>,\* int = str
      <<JUP, Join3(C, Eq(Ref(P, <<"c">>), Ref(C, <<"f">>)), INNER)>>,
      <<JUP, Join3(C, Eq(Ref(P, <<"h">>), Ref(C, <<"n">>)), left),
        Join3(P, Eq(Ref(U, id), Ref(N, id)), left)>>,
      <<Join3(P, Eq(Ref(P, <<"u">>), Ref(U, id)), left)>>, \* B.y = A.x
      <<JUP, Join3(N, Eq(Ref(U, id), Ref(P, <<"h">>)), left)>>,
      <<JUP, Join3(C, Eq(Ref(U, id), Ref(P, <<"u">>)), left)>> }

\* Values of a join's "type": the empty string, mixed case, strings that
\* only start with "left" and strings that do not.
JoinTypes ==
    { <<>>, <<"L", "e", "f", "t">>, <<"l", "e", "f">>,
      <<"l", "e", "f", "t", "y">>,
      <<"L", "E", "F", "T", " ", "O", "U", "T", "E", "R">>,
      <<"r", "i", "g", "h", "t">> }

\* A join of each type, followed by a join without ON clause.
TypedJoinLists ==
    { <<Join3(P, Eq(Ref(U, id), Ref(P, <<"u">>)), ty), ("table" :> C)>> :
        ty \in JoinTypes }

\* ON clauses around the shape `ident.ident = ident.ident`: a trailing
\* token, a second predicate, other operators, missing qualifiers, leading
\* white space.
OnClauses ==
    { Eq(Ref(U, id), Ref(P, <<"u">>)) \o <<" ", "x">>,
      Eq(Ref(U, id), Ref(P, <<"u">>)) \o <<" ", "&", " ">>
          \o Eq(Ref(P, <<"c">>), Ref(U, id)),
      Ref(U, id) \o <<" ", "<", " ">> \o Ref(P, <<"u">>),
      Ref(U, id) \o <<" ", "=", "=", " ">> \o Ref(P, <<"u">>),
      Eq(id, Ref(P, <<"u">>)),
      Eq(Ref(U, id), P),
      <<" ">> \o Eq(Ref(U, id), Ref(P, <<"u">>)) }

\* A join over each of these ON clauses, followed by a join without one.
ShapedJoinLists ==
    { <<Join3(P, on, left), ("table" :> C)>> : on \in OnClauses }

JoinLists ==
    ValidJoinLists \cup InvalidJoinLists \cup TypedJoinLists
        \cup ShapedJoinLists

Sel(s, a) == [src |-> s, alias |-> a]

Cols1 == <<Sel(Ref(U, id), "id")>>
Cols2 == <<Sel(Ref(U, id), "id"), Sel(Ref(P, <<"h">>), "tel")>>
Cols3 == <<Sel(Ref(P, <<"h">>), "tel"), Sel(Ref(U, id), "id")>>

TransformNames == {"", "upper", "filter", "writer", "sink", "missing"}

Entries ==
    {[root_table |-> U, joins |-> j, columns |-> Cols1, target_table |-> T] :
        j \in JoinLists}
    \cup {[root_table |-> U, joins |-> <<JUP>>, columns |-> Cols3],
          [root_table |-> U, joins |-> <<>>, columns |-> Cols2]}
    \cup {[root_table |-> U, joins |-> <<JUP>>, columns |-> Cols2,
           target_table |-> T, insert_function |-> f] : f \in TransformNames}
    \cup {[root_table |-> U, joins |-> <<Join3(P, Ref(U, id), left)>>,
           columns |-> Cols1, insert_function |-> "missing"],
          [root_table |-> N, joins |-> <<>>, columns |-> Cols1,
           insert_function |-> "missing"]}
    \cup {[root_table |-> N, columns |-> Cols1, target_table |-> T],
          [root_table |-> U, columns |-> Cols1]}

\* The source data: at most MaxRows rows.
SourceData == UNION {[1..n -> Values] : n \in 0..MaxRows}

----------------------------------------------------------------------------
\* Connection strings (connection_string.py).

\* str.lower
LowerChar(c) ==
    IF c \in Range(Upper)
    THEN Lower[CHOOSE i \in DOMAIN Upper : Upper[i] = c]
    ELSE c
StrLower(s) == [i \in DOMAIN s |-> LowerChar(s[i])]

\* The keys of DB_BUILDERS.
K_sqlite == <<"s", "q", "l", "i", "t", "e">>
K_duckdb == <<"d", "u", "c", "k", "d", "b">>
K_postgresql == <<"p", "o", "s", "t", "g", "r", "e", "s", "q", "l">>
K_mysql == <<"m", "y", "s", "q", "l">>
K_oracle == <<"o", "r", "a", "c", "l", "e">>
K_mssql == <<"m", "s", "s", "q", "l">>
K_access == <<"a", "c", "c", "e", "s", "s">>
K_firebird == <<"f", "i", "r", "e", "b", "i", "r", "d">>
DB_BUILDERS ==
    {K_sqlite, K_duckdb, K_postgresql, K_mysql, K_oracle, K_mssql, K_access,
     K_firebird}

\* DEFAULTS[type]["port"]
DEFAULTS ==
    (K_postgresql :> 5432) @@ (K_mysql :> 3306) @@ (K_oracle :> 1521)
        @@ (K_mssql :> 1433)

\* The value given for the keyword `port`: none, an int, or a str that is
\* not a numeral.
NoPort == [t |-> "absent", v |-> 0]
IntPort(n) == [t |-> "int", v |-> n]
StrPort(s) == [t |-> "str", v |-> s]

\* The truth value Python gives a port in `port or DEFAULTS[...]`.
Truthy(p) ==
    CASE p.t = "int" -> p.v # 0
      [] p.t = "str" -> p.v # <<>>
      [] OTHER -> FALSE

\* What a builder gives back: a connection string, kept as its scheme, its
\* driver and the port written into it, or the exception it raised.
NoDsn == [type |-> <<>>, driver |-> "", port |-> NoPort]
Returned(type, driver, port) ==
    [exc |-> NoError, dsn |-> [type |-> type, driver |-> driver, port |-> port]]
Raised(e) == [exc |-> e, dsn |-> NoDsn]

\* _create_server_based: validate_call rejects a port that is not an int
\* with a ValidationError, a ValueError; then the test of the range.
PortMax == 65535
PortError(port) ==
    IF port.t # "int"
    THEN Exc("ValueError", "Validation", <<>>, <<"port">>)
    ELSE IF port.v <= 0 \/ port.v > PortMax
    THEN ValueError("PortRange", <<>>, <<>>)
    ELSE NoError

create_server_based(type, port, driver) ==
    IF PortError(port) # NoError THEN Raised(PortError(port))
    ELSE Returned(type, driver, port)

\* postgresql, mysql, oracle: `port = port or DEFAULTS[type]["port"]`, the
\* other parameters default likewise, then _create_server_based.
OrDefault(type, port) == IF Truthy(port) THEN port ELSE IntPort(DEFAULTS[type])
postgresql(kw) ==
    create_server_based(K_postgresql, OrDefault(K_postgresql, kw.port),
                        "psycopg2")
mysql(kw) ==
    create_server_based(K_mysql, OrDefault(K_mysql, kw.port), "pymysql")
oracle(kw) ==
    create_server_based(K_oracle, OrDefault(K_oracle, kw.port), "cx_oracle")

\* sqlserver: host, port, user, password and database are required; the
\* port is written into the ODBC string as given, by _create_odbc.
sqlserver(kw) ==
    IF ~kw.full \/ kw.port.t = "absent"
    THEN Raised(Exc("TypeError", "MissingArgument", <<>>, <<>>))
    ELSE Returned(K_mssql, "pyodbc", kw.port)

\* sqlite: its only parameter is `path`.
sqlite(kw) ==
    IF kw.full \/ kw.port.t # "absent"
    THEN Raised(Exc("TypeError", "UnexpectedArgument", <<>>, <<>>))
    ELSE Returned(K_sqlite, "", NoPort)

\* create_connection_string(db_type, **kwargs)
create_connection_string(db_type, kw) ==
    LET t == StrLower(db_type)
    IN  IF t \notin DB_BUILDERS
        THEN Raised(ValueError("Unsupported", <<t>>, <<>>))
        ELSE CASE t = K_postgresql -> postgresql(kw)
               [] t = K_mysql -> mysql(kw)
               [] t = K_oracle -> oracle(kw)
               [] t = K_mssql -> sqlserver(kw)
               [] t = K_sqlite -> sqlite(kw)

\* The calls drawn: the server types, one of them in mixed case, the
\* documented alias "sqlserver", sqlite and an unknown type; ports around
\* both ends of the range; with or without host, user, password, database.
DbTypes ==
    { K_postgresql, K_mysql, K_oracle, K_mssql, K_sqlite,
      <<"P", "o", "s", "t", "g", "r", "e", "S", "Q", "L">>,
      <<"s", "q", "l", "s", "e", "r", "v", "e", "r">>,
      <<"n", "o", "t", "a", "d", "b">> }
Ports ==
    {NoPort} \cup {IntPort(n) : n \in {-1, 0, 1, 2, PortMax - 1, PortMax,
                                       PortMax + 1, 70000}}
        \cup {StrPort(<<>>), StrPort(<<"a", "b", "c">>)}
Kwargs == [port : Ports, full : BOOLEAN]

\* No call of create_connection_string is under way.
NoCall ==
    [db_type |-> <<>>, kw |-> [port |-> NoPort, full |-> FALSE],
     done |-> TRUE, out |-> Raised(NoError)]

----------------------------------------------------------------------------
\* migrate.

\* The locals of one iteration of migrate's loop before they are assigned.
Unassigned ==
    /\ insert_fn = NoFn
    /\ added_tables = {}
    /\ table_map = <<>>
    /\ from_clause = [root |-> None, joins |-> <<>>]
    /\ vj = 0
    /\ join_query = [select |-> <<>>, from |-> [root |-> None, joins |-> <<>>]]
    /\ rows = <<>>
    /\ ri = 0

Init ==
    /\ registry \in Registries
    /\ srcRows \in SourceData
    /\ plan = <<>>
    /\ k = 0
    /\ pc = "ForEntry"
    /\ Unassigned
    /\ extracted = <<>>
    /\ queries = <<>>
    /\ calls = <<>>
    /\ inserts = <<>>
    /\ error = NoError
    /\ result = ""
    /\ conn = NoCall

\* The locals migrate reads from map_entry.
map_entry == plan[k]
root_table == map_entry["root_table"]
joins == Get(map_entry, "joins", <<>>)
columns == Get(map_entry, "columns", <<>>)
\* A variant that ignores the entry's target_table.
target_table_ignored == root_table

target_table == Get(map_entry, "target_table", root_table)

\* A variant that never reads the entry's insert_function.
insert_fn_name_ignored == ""

insert_fn_name == Get(map_entry, "insert_function", "")

\* A variant that records the exception and goes on with the next entry.
RaiseAndContinue(e) ==
    /\ pc' = "ForEntry"
    /\ error' = e

\* An exception raised anywhere below leaves the loop over the entries and
\* migrate itself: nothing catches it.
Raise(e) ==
    /\ pc' = "Failed"
    /\ error' = e

\* The loop takes the next entry of the mapping; the calls it makes for
\* this entry start with fresh locals.
ForEntry ==
    /\ pc = "ForEntry"
    /\ Len(plan) < MaxEntries
    /\ \E e \in Entries : plan' = Append(plan, e)
    /\ k' = k + 1
    /\ pc' = "Lookup"
    /\ insert_fn' = NoFn
    /\ added_tables' = {}
    /\ table_map' = <<>>
    /\ from_clause' = [root |-> None, joins |-> <<>>]
    /\ vj' = 0
    /\ join_query' = [select |-> <<>>, from |-> [root |-> None, joins |-> <<>>]]
    /\ rows' = <<>>
    /\ ri' = 0
    /\ UNCHANGED <<conn, registry, srcRows, extracted, queries, calls, inserts,
                   error, result>>

\* The mapping is exhausted: migrate returns.
Return ==
    /\ pc = "ForEntry"
    /\ pc' = "Done"
    /\ result' = "Migration completed successfully"
    /\ UNCHANGED <<conn, registry, srcRows, plan, k, insert_fn, added_tables,
                   table_map, from_clause, vj, join_query, rows, ri,
                   extracted, queries, calls, inserts, error>>

\* insert_fn = _lookup_insert_fn(transform_registry, insert_fn_name)
Lookup ==
    /\ pc = "Lookup"
    /\ LET reg == TransformRegistry(registry)
           e == LookupError(reg, insert_fn_name)
       IN  IF e # NoError
           THEN Raise(e) /\ UNCHANGED insert_fn
           ELSE /\ insert_fn' = LookupInsertFn(reg, insert_fn_name)
                /\ pc' = "ValidateRoot"
                /\ UNCHANGED error
    /\ UNCHANGED <<conn, registry, srcRows, plan, k, added_tables, table_map,
                   from_clause, vj, join_query, rows, ri, extracted, queries,
                   calls, inserts, result>>

\* A variant that runs the probe as soon as one join is folded.
AfterJoinProbeEach(j, n) == IF j >= 1 \/ j = n THEN "Probe" ELSE "ValidateJoin"

\* Where validate_joins goes after the root (j = 0) or the j-th of n joins:
\* to the next iteration of its loop, and after the loop to the probe.
AfterJoin(j, n) == IF j = n THEN "Probe" ELSE "ValidateJoin"

\* validate_joins up to its loop: the root table.
ValidateRoot ==
    /\ pc = "ValidateRoot"
    /\ IF root_table \notin TableNames
       THEN /\ Raise(ValueError("UnknownRoot", <<root_table>>, <<>>))
            /\ UNCHANGED <<added_tables, table_map, from_clause, vj>>
       ELSE /\ added_tables' = {root_table}
            /\ table_map' = (root_table :> LoadTable(root_table))
            /\ from_clause' = [root |-> root_table, joins |-> <<>>]
            /\ vj' = 1
            /\ pc' = AfterJoin(0, Len(joins))
            /\ UNCHANGED error
    /\ UNCHANGED <<conn, registry, srcRows, plan, k, insert_fn, join_query, rows,
                   ri, extracted, queries, calls, inserts, result>>

\* One iteration of the loop over join_tables.
ValidateJoin ==
    /\ pc = "ValidateJoin"
    /\ vj <= Len(joins)
    /\ LET join_info == joins[vj]
           e == JoinError(join_info, added_tables)
       IN  IF e # NoError
           THEN /\ Raise(e)
                /\ UNCHANGED <<added_tables, table_map, from_clause, vj>>
           ELSE /\ table_map' = JoinTableMap(join_info, table_map)
                /\ from_clause' = JoinFromClause(join_info, from_clause)
                /\ added_tables' = JoinAdded(join_info, added_tables)
                /\ vj' = vj + 1
                /\ pc' = AfterJoin(vj, Len(joins))
                /\ UNCHANGED error
    /\ UNCHANGED <<conn, registry, srcRows, plan, k, insert_fn, join_query, rows,
                   ri, extracted, queries, calls, inserts, result>>

Query(kd, ok) == [entry |-> k, kind |-> kd, ok |-> ok]

\* A variant that swallows the failure of the probe.
ProbeErrorSwallowed(out) == NoError

\* try: db.execute_query(sql_str) / except SQLAlchemyError as e: raise
\* ValueError(f"Join validation failed: {e}")
ProbeError(out) ==
    IF out = "ok" THEN NoError
    ELSE ValueError("JoinValidationFailed", <<>>, <<out>>)

\* The LIMIT 1 statement over from_clause, executed on the source; an
\* SQLAlchemyError becomes the ValueError "Join validation failed".
Probe ==
    /\ pc = "Probe"
    /\ \E out \in ExecuteOutcomes(from_clause) :
          /\ queries' = Append(queries, Query("probe", out = "ok"))
          /\ IF ProbeError(out) = NoError
             THEN pc' = "Compile" /\ UNCHANGED error
             ELSE Raise(ProbeError(out))
    /\ UNCHANGED <<conn, registry, srcRows, plan, k, insert_fn, added_tables,
                   table_map, from_clause, vj, join_query, rows, ri,
                   extracted, calls, inserts, result>>

\* generate_join_query after validate_joins returned.
Compile ==
    /\ pc = "Compile"
    /\ LET e == ColumnsError(columns, table_map)
       IN  IF e # NoError
           THEN Raise(e) /\ UNCHANGED join_query
           ELSE /\ join_query' = CompileQuery(columns, from_clause)
                /\ pc' = "Extract"
                /\ UNCHANGED error
    /\ UNCHANGED <<conn, registry, srcRows, plan, k, insert_fn, added_tables,
                   table_map, from_clause, vj, rows, ri, extracted, queries,
                   calls, inserts, result>>

\* rows = old_db.execute_query(join_query) or []; the statement is a
\* SELECT, for which execute_query returns a list, empty or not.
Extract ==
    /\ pc = "Extract"
    /\ \E out \in ExecuteOutcomes(join_query.from) :
          /\ queries' = Append(queries, Query("extract", out = "ok"))
          /\ IF out = "SQLAlchemyError"
             THEN /\ Raise(Exc(out, "ExecutionFailed", <<>>, <<>>))
                  /\ UNCHANGED <<rows, ri, extracted>>
             ELSE /\ rows' = ResultRows(join_query, srcRows)
                  /\ extracted' = Append(extracted, rows')
                  /\ ri' = 1
                  /\ pc' = IF rows' = <<>> THEN "ForEntry" ELSE "Process"
                  /\ UNCHANGED error
    /\ UNCHANGED <<conn, registry, srcRows, plan, k, insert_fn, added_tables,
                   table_map, from_clause, vj, join_query, calls, inserts,
                   result>>

\* _process_rows.

InsertOutcomes == {"ok", "SQLAlchemyError"}

Ins(tb, rd, who) ==
    [entry |-> k, idx |-> ri, table |-> tb, row |-> rd, by |-> who]

\* `for row in rows`: the next row, or the return to migrate's loop.
NextRow ==
    /\ ri' = ri + 1
    /\ pc' = IF ri = Len(rows) THEN "ForEntry" ELSE "Process"

\* A variant that iterates over the rows from the last to the first.
RowAtReversed(rws, i) == rws[Len(rws) + 1 - i]

\* `for row in rows`: the row of the i-th iteration.
RowAt(rws, i) == rws[i]

\* The number of positional parameters a registered function declares.
Arity(fn) == IF fn.shape = "mapper" THEN 1 ELSE 2

\* A variant that passes the row mapping alone.
CallArgsRowOnly == <<"row_dict">>

\* The arguments `insert_fn(new_db, row_dict)` passes.
CallArgs == <<"new_db", "row_dict">>

\* A variant in which the failure rolls back the rows of the entry that
\* were inserted before it.
AfterFailedInsertRollback(log) ==
    LET earlier(x) == x.entry # k IN SelectSeq(log, earlier)

\* The target after insert_row raised: execute_query rolls back the
\* session of the failed statement only; every earlier insert_row committed
\* in a session of its own.
AfterFailedInsert(log) == log

\* new_db.insert_row(target_table, row_dict), for a row without transform.
InsertRow ==
    /\ pc = "Process"
    /\ ri <= Len(rows)
    /\ insert_fn = NoFn
    /\ \E out \in InsertOutcomes :
          IF out = "ok"
          THEN /\ inserts' = Append(inserts,
                      Ins(target_table, RowToDict(RowAt(rows, ri)), "pipeline"))
               /\ NextRow
               /\ UNCHANGED error
          ELSE /\ Raise(Exc(out, "ExecutionFailed", <<>>, <<>>))
               /\ inserts' = AfterFailedInsert(inserts)
               /\ UNCHANGED ri
    /\ UNCHANGED <<conn, registry, srcRows, plan, k, insert_fn, added_tables,
                   table_map, from_clause, vj, join_query, rows, extracted,
                   queries, calls, result>>

\* insert_fn(new_db, row_dict); continue
CallTransform ==
    /\ pc = "Process"
    /\ ri <= Len(rows)
    /\ insert_fn # NoFn
    /\ calls' = Append(calls,
          [entry |-> k, idx |-> ri, name |-> insert_fn.name,
           args |-> CallArgs, row |-> RowToDict(RowAt(rows, ri))])
    /\ IF Arity(insert_fn) # Len(CallArgs)
       THEN /\ Raise(Exc("TypeError", "BadCall", <<>>, <<insert_fn.name>>))
            /\ UNCHANGED <<inserts, ri>>
       ELSE IF WriterPersists(insert_fn.name)
       THEN \E out \in InsertOutcomes :
               IF out = "ok"
               THEN /\ inserts' = Append(inserts,
                          Ins(T, RowToDict(RowAt(rows, ri)), "writer"))
                    /\ NextRow
                    /\ UNCHANGED error
               ELSE /\ Raise(Exc(out, "ExecutionFailed", <<>>, <<>>))
                    /\ UNCHANGED <<inserts, ri>>
       ELSE /\ NextRow
            /\ UNCHANGED <<inserts, error>>
    /\ UNCHANGED <<conn, registry, srcRows, plan, k, insert_fn, added_tables,
                   table_map, from_clause, vj, join_query, rows, extracted,
                   queries, result>>

Next ==
    \/ ForEntry
    \/ Return
    \/ Lookup
    \/ ValidateRoot
    \/ ValidateJoin
    \/ Probe
    \/ Compile
    \/ Extract
    \/ InsertRow
    \/ CallTransform

Spec == Init /\ [][Next]_vars

\* A call of create_connection_string, on its own: migrate is not running.
InitConn ==
    /\ registry = [given |-> FALSE, items |-> <<>>]
    /\ srcRows = <<>>
    /\ plan = <<>>
    /\ k = 0
    /\ pc = "Idle"
    /\ Unassigned
    /\ extracted = <<>>
    /\ queries = <<>>
    /\ calls = <<>>
    /\ inserts = <<>>
    /\ error = NoError
    /\ result = ""
    /\ conn \in {[db_type |-> d, kw |-> kw, done |-> FALSE,
                  out |-> Raised(NoError)] : d \in DbTypes, kw \in Kwargs}

CreateConnectionString ==
    /\ ~conn.done
    /\ conn' = [conn EXCEPT !.done = TRUE,
                            !.out = create_connection_string(conn.db_type,
                                                             conn.kw)]
    /\ UNCHANGED <<registry, srcRows, plan, k, pc, insert_fn, added_tables,
                   table_map, from_clause, vj, join_query, rows, ri,
                   extracted, queries, calls, inserts, error, result>>

NextConn == CreateConnectionString

SpecConn == InitConn /\ [][NextConn]_vars

----------------------------------------------------------------------------
\* Vocabulary of the properties, read from the history variables.

\* The fields of plan entry e, as its configuration states them.
EntryRoot(e) == plan[e]["root_table"]
EntryTarget(e) ==
    IF "target_table" \in DOMAIN plan[e] THEN plan[e]["target_table"]
    ELSE EntryRoot(e)
EntryTransform(e) ==
    IF "insert_function" \in DOMAIN plan[e] THEN plan[e]["insert_function"]
    ELSE ""

\* The names the caller registered.
Registered == IF registry.given
              THEN {registry.items[i].name : i \in DOMAIN registry.items}
              ELSE {}
RegisteredMappers ==
    {registry.items[i].name :
        i \in {x \in DOMAIN registry.items : registry.items[x].shape = "mapper"}}

\* Entry e has been processed to its end.
EntryDone(e) == e < k \/ (e = k /\ pc \in {"ForEntry", "Done"})

\* The number of rows of entry e (whose rows were extracted) that the row
\* loop has finished with.
RowsDone(e) ==
    IF EntryDone(e) THEN Len(extracted[e])
    ELSE IF ri = 0 THEN 0 ELSE ri - 1

\* The alias -> value mapping of an extracted row (of distinct aliases).
IsMappingOf(d, row) ==
    /\ DOMAIN d = {row[c][1] : c \in DOMAIN row}
    /\ \A c \in DOMAIN row : d[row[c][1]] = row[c][2]
MappingOf(row) ==
    [a \in {row[c][1] : c \in DOMAIN row} |->
        row[CHOOSE c \in DOMAIN row : row[c][1] = a][2]]

\* The positions of the insert log that belong to row i of entry e.
InsertsAt(e, i) ==
    {p \in DOMAIN inserts : inserts[p].entry = e /\ inserts[p].idx = i}
InsertsOfEntry(e) == {p \in DOMAIN inserts : inserts[p].entry = e}
CallsAt(e, i) ==
    {p \in DOMAIN calls : calls[p].entry = e /\ calls[p].idx = i}

IsMapperEntry(e) == registry.given /\ EntryTransform(e) \in RegisteredMappers

\* C2 (as claimed): an entry naming a registered one-argument row mapper
\* calls the mapper with the row mapping alone, is not aborted by the call,
\* and for every row the loop has reached for which the mapper returns a
\* mapping, insert_row(target table, returned mapping) is called exactly
\* once.
C2_MapperInserted ==
    \A e \in DOMAIN extracted :
        IsMapperEntry(e) =>
            /\ \A p \in DOMAIN calls :
                  calls[p].entry = e => calls[p].args = <<"row_dict">>
            /\ ~(e = k /\ pc = "Failed" /\ error.exc = "TypeError")
            /\ \A i \in 1..RowsDone(e) :
                  LET out == MapperResult(EntryTransform(e),
                                          MappingOf(extracted[e][i]))
                  IN  out # Absent =>
                        /\ Cardinality(CallsAt(e, i)) = 1
                        /\ Cardinality(InsertsAt(e, i)) = 1
                        /\ \A p \in InsertsAt(e, i) :
                              /\ inserts[p].table = EntryTarget(e)
                              /\ inserts[p].row = out

\* C3 (as claimed): a row for which the mapper returns the absent marker
\* gets no insert and does not abort its entry, and when the entry is done
\* every row for which the mapper returns a mapping was inserted once.
C3_AbsentSkipsRowOnly ==
    \A e \in DOMAIN extracted :
        IsMapperEntry(e) =>
            \A i \in DOMAIN extracted[e] :
                LET out == MapperResult(EntryTransform(e),
                                        MappingOf(extracted[e][i]))
                IN  /\ out = Absent =>
                          /\ InsertsAt(e, i) = {}
                          /\ ~(e = k /\ pc = "Failed" /\ ri = i)
                    /\ (out # Absent /\ EntryDone(e)) =>
                          Cardinality(InsertsAt(e, i)) = 1

\* C4: once the lookup of an entry whose transform name is not registered
\* has run, migrate has failed with the unknown-transform error naming the
\* requested transform followed by the registered names, no statement of
\* that entry ran on the source, and no row of that entry or of a later
\* one reached a transform or insert_row.
C4_UnknownTransformFirst ==
    (k >= 1 /\ pc # "Lookup" /\ EntryTransform(k) # ""
            /\ EntryTransform(k) \notin Registered) =>
        /\ pc = "Failed"
        /\ error.exc = "ValueError"
        /\ error.kind = "UnknownTransform"
        /\ Head(error.strs) = EntryTransform(k)
        /\ Range(Tail(error.strs)) = Registered
        /\ \A p \in DOMAIN calls : calls[p].entry < k
        /\ \A p \in DOMAIN inserts : inserts[p].entry < k
        /\ \A p \in DOMAIN queries : queries[p].entry < k

\* The second entry names a transform missing from a non-empty registry,
\* after the first entry inserted rows.
C4_Witness ==
    /\ pc = "Failed"
    /\ error.kind = "UnknownTransform"
    /\ k = 2
    /\ registry.given
    /\ EntryTransform(k) = "missing"
    /\ inserts # <<>>

\* The joins of the entry being processed, and what the claims call
\* introduced before join j: the root and the table of every earlier join.
CurJoins == IF k >= 1 /\ "joins" \in DOMAIN plan[k] THEN plan[k]["joins"] ELSE <<>>
Introduced(j) == {EntryRoot(k)} \cup {CurJoins[i]["table"] : i \in 1..(j - 1)}

\* The loop of validate_joins has taken join j: it passed it, or raised in it.
Taken(j) == vj > j \/ (vj = j /\ pc = "Failed")

\* Join j names an existing table and its ON clause parses.
Parses(j) ==
    /\ "table" \in DOMAIN CurJoins[j]
    /\ CurJoins[j]["table"] \in TableNames
    /\ "on_clause" \in DOMAIN CurJoins[j]
    /\ ParseOnClause(CurJoins[j]["on_clause"]) # None
Pred(j) == ParseOnClause(CurJoins[j]["on_clause"])

\* The tables of join j's predicate that are neither introduced before it
\* nor the table it joins.
Forward(j) ==
    LET pr == Pred(j)
        before == Introduced(j)
    IN  {t \in {pr[1], pr[3]} : t \notin before /\ t # CurJoins[j]["table"]}

\* C5: a join that validate_joins has taken, whose table exists and whose
\* predicate names a table neither introduced before it nor its own, made
\* validation fail at that join with the forward-reference error naming
\* such a table, whatever the columns or their types.
C5_ForwardReference ==
    \A j \in DOMAIN CurJoins :
        (Taken(j) /\ Parses(j) /\ Forward(j) # {}) =>
            /\ pc = "Failed"
            /\ vj = j
            /\ error.exc = "ValueError"
            /\ error.kind = "ForwardReference"
            /\ Len(error.names) = 1
            /\ error.names[1] \in Forward(j)

\* A forward reference was reported for a predicate over existing tables
\* one of whose columns does not exist.
C5_Witness ==
    /\ pc = "Failed"
    /\ error.kind = "ForwardReference"
    /\ vj \in DOMAIN CurJoins
    /\ Parses(vj)
    /\ Pred(vj)[1] \in TableNames
    /\ Pred(vj)[3] \in TableNames
    /\ \/ ~HasColumn(Catalog[Pred(vj)[1]], Pred(vj)[2])
       \/ ~HasColumn(Catalog[Pred(vj)[3]], Pred(vj)[4])

\* Both columns of join j's predicate exist in the catalog.
ColumnsExist(j) ==
    /\ Parses(j)
    /\ LET pr == Pred(j)
       IN  /\ pr[1] \in TableNames /\ HasColumn(Catalog[pr[1]], pr[2])
           /\ pr[3] \in TableNames /\ HasColumn(Catalog[pr[3]], pr[4])
LeftTag(j) == LET pr == Pred(j) IN GetColumnType(Catalog[pr[1]], pr[2])
RightTag(j) == LET pr == Pred(j) IN GetColumnType(Catalog[pr[3]], pr[4])

\* What the type-mismatch error of join j carries: both column references
\* and both tags.
IsMismatchOf(e, j) ==
    /\ e.exc = "ValueError"
    /\ e.kind = "TypeMismatch"
    /\ e.names = Pred(j)
    /\ e.strs = <<LeftTag(j), RightTag(j)>>

\* C6 (as claimed): every taken join whose predicate equates two existing
\* columns of different tags failed with the type-mismatch error, and a
\* join of equal tags never did.
C6_MismatchAlways ==
    \A j \in DOMAIN CurJoins :
        (Taken(j) /\ ColumnsExist(j)) =>
            IF LeftTag(j) # RightTag(j)
            THEN pc = "Failed" /\ vj = j /\ IsMismatchOf(error, j)
            ELSE ~(pc = "Failed" /\ vj = j /\ error.kind = "TypeMismatch")

\* C6 (amended): the same for the joins whose predicate names no table
\* that is a forward reference.
C6_MismatchAfterReferences ==
    \A j \in DOMAIN CurJoins :
        (Taken(j) /\ ColumnsExist(j) /\ Forward(j) = {}) =>
            IF LeftTag(j) # RightTag(j)
            THEN pc = "Failed" /\ vj = j /\ IsMismatchOf(error, j)
            ELSE ~(pc = "Failed" /\ vj = j /\ error.kind = "TypeMismatch")

\* An INNER join of an int column to a str column failed with the error.
C6_Witness ==
    /\ pc = "Failed"
    /\ vj \in DOMAIN CurJoins
    /\ ColumnsExist(vj)
    /\ IsMismatchOf(error, vj)
    /\ error.strs = <<"int", "str">>
    /\ ~IsOuter(CurJoins[vj])

\* C7: a probe that failed at the execution layer is the last statement
\* run: validate_joins raised the ValueError "Join validation failed"
\* wrapping the underlying error, and returned nothing, so that no query
\* was compiled or executed for the entry.
C7_ProbeGate ==
    \A p \in DOMAIN queries :
        (queries[p].kind = "probe" /\ ~queries[p].ok) =>
            /\ p = Len(queries)
            /\ queries[p].entry = k
            /\ pc = "Failed"
            /\ error = ValueError("JoinValidationFailed", <<>>,
                                  <<"SQLAlchemyError">>)
            /\ join_query.select = <<>>
            /\ Len(extracted) < k

\* The probe failed over a well-formed tree of two joins that passed every
\* static check.
C7_Witness ==
    /\ pc = "Failed"
    /\ error.kind = "JoinValidationFailed"
    /\ Len(CurJoins) = 2
    /\ vj = 3
    /\ WellFormed(from_clause)

\* The kinds of the exceptions that leave migrate.
FatalKinds ==
    {"UnknownRoot", "MalformedJoin", "UnknownTable", "InvalidOn",
     "ForwardReference", "UnknownColumn", "TypeMismatch",
     "JoinValidationFailed", "UnknownTransform", "ExecutionFailed", "BadCall"}

\* C8: once an error was raised in entry k, migrate has stopped there: it
\* has not returned its success status, it took no entry after k, and no
\* statement, transform call, extraction or insert belongs to an entry
\* after the one that failed.
C8_StopsAtFirstError ==
    /\ error # NoError =>
          /\ pc = "Failed"
          /\ error.kind \in FatalKinds
          /\ result = ""
          /\ Len(plan) = k
          /\ \A p \in DOMAIN queries : queries[p].entry <= k
          /\ \A p \in DOMAIN calls : calls[p].entry <= k
          /\ \A p \in DOMAIN inserts : inserts[p].entry <= k
          /\ Len(extracted) <= k
    /\ pc = "Failed" => error # NoError
    /\ result # "" => (pc = "Done" /\ error = NoError)

\* The first of the entries failed its validation while the plan could
\* have held more entries.
C8_Witness ==
    /\ pc = "Failed"
    /\ k = 1
    /\ k < MaxEntries
    /\ error.kind = "TypeMismatch"

\* C9 (as claimed): the error that leaves migrate is a migration-entry
\* error carrying the root table and the target table of the entry being
\* processed, together with the root cause.
C9_EntryIdentityAttached ==
    pc = "Failed" =>
        /\ error.kind = "MigrationEntryFailed"
        /\ EntryRoot(k) \in Range(error.names)
        /\ EntryTarget(k) \in Range(error.names)

\* C10: the insert log is ordered by entry and, within an entry, by the
\* position of the row in the extraction result: the n-th insert of an
\* entry is the insert of its n-th extracted row, with that row's values.
C10_InsertOrder ==
    /\ \A p, q \in DOMAIN inserts :
          p < q =>
             \/ inserts[p].entry < inserts[q].entry
             \/ /\ inserts[p].entry = inserts[q].entry
                /\ inserts[p].idx < inserts[q].idx
    /\ \A p \in DOMAIN inserts :
          LET e == inserts[p].entry
          IN  /\ e \in DOMAIN extracted
              /\ inserts[p].idx \in DOMAIN extracted[e]
              /\ inserts[p].idx =
                    Cardinality({q \in 1..p : inserts[q].entry = e})
              /\ IsMappingOf(inserts[p].row, extracted[e][inserts[p].idx])

\* Two entries of two different rows each, all four rows inserted.
C10_Witness ==
    /\ Len(inserts) = 4
    /\ inserts[2].entry = 1
    /\ inserts[3].entry = 2
    /\ srcRows[1] # srcRows[2]

\* C11: the statement generate_join_query compiled lists one labelled
\* column per item of the entry's column selection, in the insertion order
\* of the selection: the i-th output column is `<table>.<column> AS <alias>`
\* of the i-th item, whatever the order in which the joins introduced the
\* tables; the extracted rows carry the aliases in the same order.
C11_ColumnOrder ==
    (k >= 1 /\ pc \in {"Extract", "Process"}) =>
        LET cols == plan[k]["columns"]
        IN  /\ Len(join_query.select) = Len(cols)
            /\ \A i \in DOMAIN cols :
                  /\ Ref(join_query.select[i].table,
                         join_query.select[i].column) = cols[i].src
                  /\ join_query.select[i].alias = cols[i].alias
            /\ pc = "Process" =>
                  \A r \in DOMAIN rows : \A i \in DOMAIN cols :
                      rows[r][i][1] = cols[i].alias

\* A statement whose first output column belongs to the table of the join
\* and whose second belongs to the root table.
C11_Witness ==
    /\ pc = "Process"
    /\ Len(join_query.select) = 2
    /\ join_query.select[1].table = P
    /\ join_query.select[2].table = join_query.from.root
    /\ join_query.from.joins # <<>>

\* A type string is "left" whatever the case of its letters, and a type
\* string begins with those four letters.
IsLeftChars(s) ==
    /\ s[1] \in {"l", "L"}
    /\ s[2] \in {"e", "E"}
    /\ s[3] \in {"f", "F"}
    /\ s[4] \in {"t", "T"}
EqualsLeft(s) == Len(s) = 4 /\ IsLeftChars(s)
BeginsWithLeft(s) == Len(s) >= 4 /\ IsLeftChars(s)

\* C12 (as claimed): a join appended to the join tree is LEFT OUTER exactly
\* when its specification gives a type equal to "left" ignoring case; every
\* other type, the empty and the missing one included, gives INNER.
C12_LeftWhenEqual ==
    \A i \in DOMAIN from_clause.joins :
        from_clause.joins[i].isouter <=>
            /\ "type" \in DOMAIN CurJoins[i]
            /\ EqualsLeft(CurJoins[i]["type"])

\* C12 (amended): a join appended to the join tree is LEFT OUTER exactly
\* when its specification gives a type that begins with "left" ignoring
\* case; every other type, the empty and the missing one included, gives
\* INNER.
C12_LeftWhenPrefix ==
    \A i \in DOMAIN from_clause.joins :
        from_clause.joins[i].isouter <=>
            /\ "type" \in DOMAIN CurJoins[i]
            /\ BeginsWithLeft(CurJoins[i]["type"])

\* A join of type "LEFT OUTER" was appended as LEFT OUTER.
C12_Witness ==
    /\ Len(from_clause.joins) = 1
    /\ "type" \in DOMAIN CurJoins[1]
    /\ CurJoins[1]["type"] = <<"L", "E", "F", "T", " ", "O", "U", "T", "E", "R">>
    /\ from_clause.joins[1].isouter

\* The shape `ident.ident = ident.ident`, read off the whole string: the
\* first "=", the first "." and the first "." after the "=" delimit four
\* non-empty runs of word characters, with white space only next to "=".
IndicesOf(s, c, a) == {i \in a..Len(s) : s[i] = c}
Least(S) == CHOOSE x \in S : \A y \in S : x <= y
Greatest(S) == CHOOSE x \in S : \A y \in S : y <= x
AllWord(s, a, b) == a <= b /\ \A i \in a..b : IsWord(s[i])
AllSpace(s, a, b) == \A i \in a..b : IsSpace(s[i])
WordsIn(s, a, b) == {i \in a..b : IsWord(s[i])}

ExactShape(s) ==
    /\ IndicesOf(s, "=", 1) # {}
    /\ IndicesOf(s, ".", 1) # {}
    /\ LET q == Least(IndicesOf(s, "=", 1))
           p == Least(IndicesOf(s, ".", 1))
       IN  /\ p < q
           /\ IndicesOf(s, ".", q) # {}
           /\ WordsIn(s, p + 1, q - 1) # {}
           /\ LET r == Least(IndicesOf(s, ".", q))
                  x == Greatest(WordsIn(s, p + 1, q - 1))
              IN  /\ WordsIn(s, q + 1, r - 1) # {}
                  /\ LET y == Least(WordsIn(s, q + 1, r - 1))
                     IN  /\ AllWord(s, 1, p - 1)
                         /\ AllWord(s, p + 1, x)
                         /\ AllSpace(s, x + 1, q - 1)
                         /\ AllSpace(s, q + 1, y - 1)
                         /\ AllWord(s, y, r - 1)
                         /\ AllWord(s, r + 1, Len(s))

\* The four identifiers of a string of that shape.
ShapeParts(s) ==
    LET q == Least(IndicesOf(s, "=", 1))
        p == Least(IndicesOf(s, ".", 1))
        r == Least(IndicesOf(s, ".", q))
        x == Greatest(WordsIn(s, p + 1, q - 1))
        y == Least(WordsIn(s, q + 1, r - 1))
    IN  <<SubSeq(s, 1, p - 1), SubSeq(s, p + 1, x),
          SubSeq(s, y, r - 1), SubSeq(s, r + 1, Len(s))>>

\* C13 (as claimed): for every join validate_joins has taken that names an
\* existing table and gives an ON clause, the parser returned the four
\* identifiers when the whole clause has the shape
\* `ident.ident = ident.ident`, and returned NONE otherwise (trailing token,
\* second predicate, other operator, missing qualifier), which made
\* validation fail at that join with the invalid-ON-clause error carrying
\* the clause itself.
C13_ExactShapeOnly ==
    \A j \in DOMAIN CurJoins :
        (/\ Taken(j)
         /\ "table" \in DOMAIN CurJoins[j]
         /\ CurJoins[j]["table"] \in TableNames
         /\ "on_clause" \in DOMAIN CurJoins[j]
         /\ CurJoins[j]["on_clause"] # <<>>) =>
            LET on == CurJoins[j]["on_clause"]
            IN  IF ExactShape(on)
                THEN /\ ParseOnClause(on) = ShapeParts(on)
                     /\ ~(pc = "Failed" /\ vj = j /\ error.kind = "InvalidOn")
                ELSE /\ ParseOnClause(on) = None
                     /\ pc = "Failed"
                     /\ vj = j
                     /\ error = ValueError("InvalidOn", <<on>>, <<>>)

\* Entry e names a registered writer of two parameters.
RegisteredWriters ==
    {registry.items[i].name :
        i \in {x \in DOMAIN registry.items : registry.items[x].shape = "writer"}}
IsWriterEntry(e) == registry.given /\ EntryTransform(e) \in RegisteredWriters

\* C14: for an entry naming a registered two-parameter writer, every
\* extracted row the loop has finished with gave exactly one call of the
\* writer, no row gave more than one, each call passed the target handle and
\* the row's alias -> value mapping, the call itself did not fail on its
\* arguments, and the pipeline made no insert_row call of its own for the
\* entry.
C14_WriterOncePerRow ==
    \A e \in DOMAIN extracted :
        IsWriterEntry(e) =>
            /\ \A i \in DOMAIN extracted[e] :
                  /\ Cardinality(CallsAt(e, i)) <= 1
                  /\ i <= RowsDone(e) => Cardinality(CallsAt(e, i)) = 1
                  /\ \A p \in CallsAt(e, i) :
                        /\ calls[p].name = EntryTransform(e)
                        /\ calls[p].args = <<"new_db", "row_dict">>
                        /\ IsMappingOf(calls[p].row, extracted[e][i])
            /\ \A p \in DOMAIN calls :
                  calls[p].entry = e => calls[p].idx \in DOMAIN extracted[e]
            /\ \A p \in InsertsOfEntry(e) : inserts[p].by # "pipeline"
            /\ ~(e = k /\ pc = "Failed" /\ error.exc = "TypeError")

\* A finished entry of two rows whose writer was called twice and stored
\* nothing, so that the target received no row of the entry.
C14_Witness ==
    \E e \in DOMAIN extracted :
        /\ IsWriterEntry(e)
        /\ EntryDone(e)
        /\ Len(extracted[e]) = 2
        /\ Cardinality({p \in DOMAIN calls : calls[p].entry = e}) = 2
        /\ InsertsOfEntry(e) = {}

\* The server-based database types, and a call that gives every parameter
\* its builder requires.
ServerBased == {K_postgresql, K_mysql, K_oracle, K_mssql}
PortSupplied ==
    /\ conn.done
    /\ conn.db_type # <<>>
    /\ StrLower(conn.db_type) \in ServerBased
    /\ conn.kw.port.t # "absent"
    /\ StrLower(conn.db_type) = K_mssql => conn.kw.full
PortInRange == conn.kw.port.t = "int" /\ conn.kw.port.v \in 1..65535

\* C15 (as claimed): a call of create_connection_string for a server-based
\* type (postgresql, mysql, oracle, mssql) that supplies a port has raised
\* ValueError exactly when the port is not an integer of 1..65535; 0 and
\* negative ports raise it, a port of 1..65535 never does.
C15_PortChecked ==
    PortSupplied => (conn.out.exc.exc = "ValueError" <=> ~PortInRange)

\* C16 (as claimed): once validate_joins has checked the root, and after
\* each join it folds, the set of tables marked introduced equals the set
\* of tables in the join tree: the root and the table joined by each
\* appended join.
C16_IntroducedIsTree ==
    vj >= 1 => added_tables = Range(TreeTables(from_clause))

\* validate_joins returned for the entry being processed: its probe ran
\* and succeeded.
Validated ==
    \E p \in DOMAIN queries :
        queries[p].entry = k /\ queries[p].kind = "probe" /\ queries[p].ok

ValidationKinds ==
    {"UnknownRoot", "MalformedJoin", "UnknownTable", "InvalidOn",
     "ForwardReference", "UnknownColumn", "TypeMismatch",
     "JoinValidationFailed"}
InvalidGraph(e) ==
    \/ EntryRoot(e) \notin TableNames
    \/ /\ "joins" \in DOMAIN plan[e]
       /\ plan[e]["joins"] # <<>>
       /\ JoinError(plan[e]["joins"][1], {EntryRoot(e)}) # NoError
Unregistered(e) == EntryTransform(e) # "" /\ EntryTransform(e) \notin Registered

\* C18 (as claimed): the registry lookup comes after validation,
\* compilation and extraction, so that the unknown-transform error is
\* raised only for an entry whose rows were extracted, and an entry with
\* both an invalid join graph and an unregistered transform fails with the
\* validation error.
C18_ValidationBeforeLookup ==
    /\ (pc = "Failed" /\ error.kind = "UnknownTransform") =>
          k \in DOMAIN extracted
    /\ (pc = "Failed" /\ InvalidGraph(k) /\ Unregistered(k)) =>
          error.kind \in ValidationKinds

\* C18 (amended): the registry lookup comes first, then validation,
\* compilation, extraction and loading in that order. Validation of an
\* entry starts only with its transform resolved; a statement is compiled
\* only after validate_joins returned; rows are extracted only from a
\* compiled statement; transforms and inserts only follow an extraction;
\* and an entry with both an invalid join graph and an unregistered
\* transform fails with the unknown-transform error, nothing having been
\* validated.
C18_LookupFirst ==
    k >= 1 =>
       /\ (vj >= 1 \/ \E p \in DOMAIN queries : queries[p].entry = k) =>
             /\ ~Unregistered(k)
             /\ insert_fn.name = EntryTransform(k)
       /\ join_query.select # <<>> => Validated
       /\ k \in DOMAIN extracted =>
             /\ join_query.select # <<>>
             /\ \E p \in DOMAIN queries :
                   /\ queries[p].entry = k
                   /\ queries[p].kind = "extract"
                   /\ queries[p].ok
                   /\ \A q \in DOMAIN queries :
                         (queries[q].entry = k /\ queries[q].kind = "probe")
                            => q < p
       /\ \A p \in DOMAIN calls : calls[p].entry \in DOMAIN extracted
       /\ \A p \in DOMAIN inserts : inserts[p].entry \in DOMAIN extracted
       /\ (pc # "Lookup" /\ InvalidGraph(k) /\ Unregistered(k)) =>
             /\ pc = "Failed"
             /\ error.kind = "UnknownTransform"
             /\ vj = 0
             /\ \A p \in DOMAIN queries : queries[p].entry < k

\* An entry whose root table does not exist and whose transform is not
\* registered failed with the unknown-transform error.
C18_Witness ==
    /\ pc = "Failed"
    /\ k >= 1
    /\ EntryRoot(k) \notin TableNames
    /\ Unregistered(k)
    /\ error.kind = "UnknownTransform"

\* The errors of the static checks of validate_joins, and the positions of
\* the statement log that belong to entry e: each entry is validated by
\* one call of validate_joins.
StaticKinds == ValidationKinds \ {"JoinValidationFailed"}
QueriesOf(e) == {p \in DOMAIN queries : queries[p].entry = e}
ProbesOf(e) == {p \in QueriesOf(e) : queries[p].kind = "probe"}

InsertFailed ==
    /\ pc = "Failed"
    /\ error.exc = "SQLAlchemyError"
    /\ ri >= 1
    /\ insert_fn = NoFn

\* C20: when insert_row has failed on the i-th row of an entry, migrate has
\* stopped with that error, unwrapped, and without its success status; the
\* rows 1..i-1 of the entry are in the target, once each and with their
\* values; row i and the rows after it are not; the rows of the earlier
\* entries that the pipeline inserted are all still there; and no later
\* entry was taken.
C20_InsertFailurePropagates ==
    InsertFailed =>
        /\ error = Exc("SQLAlchemyError", "ExecutionFailed", <<>>, <<>>)
        /\ result = ""
        /\ ri \in DOMAIN extracted[k]
        /\ \A i \in DOMAIN extracted[k] :
              IF i < ri
              THEN /\ Cardinality(InsertsAt(k, i)) = 1
                   /\ \A p \in InsertsAt(k, i) :
                         IsMappingOf(inserts[p].row, extracted[k][i])
              ELSE InsertsAt(k, i) = {}
        /\ \A e \in 1..(k - 1) :
              EntryTransform(e) = "" =>
                  \A i \in DOMAIN extracted[e] :
                      Cardinality(InsertsAt(e, i)) = 1
        /\ Len(plan) = k
        /\ Len(extracted) = k
        /\ \A p \in DOMAIN inserts : inserts[p].entry <= k

\* insert_row failed on the second row of the second entry, after the two
\* rows of the first entry and the first row of the second were inserted.
C20_Witness ==
    /\ InsertFailed
    /\ k = 2
    /\ ri = 2
    /\ Len(inserts) = 3
    /\ inserts[2].entry = 1
    /\ inserts[3].entry = 2

\* Join j introduces its own table B against a table A introduced before
\* it: one side of its predicate names B, the other names A.
Introduces(j) ==
    /\ Parses(j)
    /\ LET pr == Pred(j)
           B == CurJoins[j]["table"]
       IN  /\ B \notin Introduced(j)
           /\ \/ pr[3] = B /\ pr[1] \in Introduced(j)
              \/ pr[1] = B /\ pr[3] \in Introduced(j)

\* Join j with the two sides of its predicate exchanged, and the join tree
\* as it was before join j.
Swapped(j) ==
    LET pr == Pred(j)
    IN  [CurJoins[j] EXCEPT
            !["on_clause"] = Eq(Ref(pr[3], pr[4]), Ref(pr[1], pr[2]))]
TreeBefore(j) == [from_clause EXCEPT !.joins = SubSeq(@, 1, j - 1)]

\* What validation makes of a join appended to the tree before j: the kind
\* of the static error, or else whether the probe over the tree is rejected.
OutcomeOf(join_info, j) ==
    LET e == JoinError(join_info, Introduced(j))
    IN  IF e # NoError THEN e.kind
        ELSE IF WellFormed(JoinFromClause(join_info, TreeBefore(j)))
        THEN "Accepted"
        ELSE "JoinValidationFailed"
JoinedBy(join_info, j) ==
    LET fc == JoinFromClause(join_info, TreeBefore(j))
    IN  fc.joins[Len(fc.joins)].right

\* C21 (as claimed): for every join validate_joins has taken that
\* introduces a table B against an introduced table A, the predicate as
\* written and the predicate with its sides exchanged (`A.x = B.y` and
\* `B.y = A.x`) have the same outcome, both accepted or both failing with
\* the same kind of error, and when the static checks pass the table
\* appended to the join tree is B in both cases.
C21_Symmetric ==
    \A j \in DOMAIN CurJoins :
        (Taken(j) /\ Introduces(j)) =>
            /\ OutcomeOf(CurJoins[j], j) = OutcomeOf(Swapped(j), j)
            /\ JoinError(CurJoins[j], Introduced(j)) = NoError =>
                  /\ JoinedBy(CurJoins[j], j) = CurJoins[j]["table"]
                  /\ JoinedBy(Swapped(j), j) = CurJoins[j]["table"]
                  /\ vj > j => from_clause.joins[j].right = CurJoins[j]["table"]

====
